---- MODULE Spec2Model ----
(***************************************************************************)
(* Model of the confidence-masking and guardrail-verified restoration      *)
(* pipeline of ocrbatcher (grader/ocr.py, grader/ai_cleanup.py), of the    *)
(* page coordinator (grader/cli.py) and of the completion client           *)
(* (grader/clients/xai_client.py).                                         *)
(*                                                                         *)
(* Strings are sequences of one-character strings.  Positions and slices   *)
(* follow Python: positions are 0-based, Slice(s, a, b) is s[a:b].         *)
(***************************************************************************)
EXTENDS Integers, Sequences, FiniteSets, TLC

VARIABLES
    pc,                   \* position of the function under execution
    masked_text,          \* ai_cleanup: parameter; ocr: local being built
    restored_text,        \* ai_cleanup: candidate under verification
    guardrail_result,     \* value returned by _guardrail_ok
    attempts,             \* restore: local
    guardrail_triggered,  \* restore: local
    guardrail_violated,   \* restore: local
    logger,               \* restore: TRUE iff a logger was injected
    calls,                \* client.restore calls made: <<[text, temperature]>>
    responses,            \* strings client.restore returned, in order
    verdicts,             \* outcome of _guardrail_ok at line 67, per attempt
    warnings,             \* logger.warning messages emitted, in order
    result,               \* CleanupResult returned by restore, or NoResult
    raw_text,             \* _build_masked_text: parameter
    threshold,            \* _build_masked_text: parameter
    consumed,             \* number of pairs the for loop has consumed
    masked_count,         \* _build_masked_text: local
    search_start,         \* _build_masked_text: local
    outcome,              \* what the last loop iteration did with its pair
    curEligible,          \* whether that pair was eligible (EligiblePair)
    eligible,             \* number of consumed pairs that passed line 40
    maskLog,              \* replacements made: <<[token, start, cursor, orig]>>
    tokens,               \* the pairs zip() yields, when fixed in advance
    \* cli.py : _process_pages
    npages,               \* len(images)
    dry_run,              \* parameter
    keep_images,          \* parameter
    limit,                \* semaphore: its initial value (main, line 214)
    permits,              \* semaphore: free permits
    waiters,              \* semaphore: pages waiting in acquire(), FIFO
    task,                 \* page -> position of its worker task
    ocr_done,             \* page -> TRUE iff ocr_result is set
    cleanup_result,       \* page -> CleanupResult of restore, or NoResult
    page_result,          \* page -> dict the worker returned, or NoResult
    artifacts,            \* page -> artifact files written, or NoResult
    image,                \* page -> "present" or "removed"
    results,              \* the results list of _process_pages
    files,                \* the PDF paths that exist in run_dir
    \* xai_client.py : XAIClient.restore
    max_attempts,         \* parameter
    attempt,              \* local
    last_error,           \* local: kind of the exception last caught
    http_log,             \* requests, responses and sleeps, in order
    xai_result            \* what the call returned or raised, or NoResult

guardVars   == <<guardrail_result>>
restoreVars == <<attempts, guardrail_triggered, guardrail_violated, logger,
                 calls, responses, verdicts, warnings, result>>
maskVars    == <<raw_text, threshold, consumed, masked_count,
                 search_start, outcome, curEligible, eligible, maskLog,
                 tokens>>
pageVars    == <<npages, dry_run, keep_images, limit, permits, waiters, task,
                 ocr_done, cleanup_result, page_result, artifacts, image,
                 results, files>>
xaiVars     == <<max_attempts, attempt, last_error, http_log, xai_result>>
vars == <<pc, masked_text, restored_text, guardrail_result, attempts,
          guardrail_triggered, guardrail_violated, logger, calls, responses,
          verdicts, warnings, result, raw_text, threshold, consumed,
          masked_count, search_start, outcome, curEligible, eligible, maskLog,
          tokens, npages, dry_run, keep_images, limit, permits, waiters, task,
          ocr_done, cleanup_result, page_result, artifacts, image, results,
          files,
          max_attempts, attempt, last_error, http_log, xai_result>>

----------------------------------------------------------------------------
(* Python string primitives                                                *)

Min(S) == CHOOSE x \in S : \A y \in S : x <= y

\* s[a:b] for 0 <= a
Slice(s, a, b) ==
    LET hi == IF b > Len(s) THEN Len(s) ELSE b
    IN  IF a >= hi THEN <<>> ELSE [k \in 1..(hi - a) |-> s[a + k]]

\* s[p:p+len(pat)] == pat
MatchAt(s, pat, p) ==
    /\ p >= 0
    /\ p + Len(pat) <= Len(s)
    /\ \A k \in 1..Len(pat) : s[p + k] = pat[k]

\* s.find(pat, start): lowest index >= start where pat occurs, else -1
Find(s, pat, start) ==
    LET hits == {p \in start..(Len(s) - Len(pat)) : MatchAt(s, pat, p)}
    IN  IF hits = {} THEN -1 ELSE Min(hits)

\* the placeholder literal "[[UNK]]"
UNK == <<"[", "[", "U", "N", "K", "]", "]">>

----------------------------------------------------------------------------
(* grader/ai_cleanup.py : _guardrail_ok                                    *)

\* regex.split(r"(\[\[UNK]])", masked_text): literals alternating with the
\* captured placeholder; empty literals are kept.
RECURSIVE RegexSplit(_)
RegexSplit(s) ==
    LET p == Find(s, UNK, 0)
    IN  IF p = -1
        THEN <<s>>
        ELSE <<Slice(s, 0, p), UNK>> \o RegexSplit(Slice(s, p + Len(UNK), Len(s)))

\* lines 28-32: the first element after parts[idx] that is not the
\* placeholder ("" when there is none).  idx is 1-based here.
RECURSIVE NextLiteral(_, _)
NextLiteral(parts, idx) ==
    IF idx + 1 > Len(parts) THEN <<>>
    ELSE IF parts[idx + 1] # UNK THEN parts[idx + 1]
    ELSE NextLiteral(parts, idx + 1)

\* lines 25-54: the while loop; idx is 1-based here (Python idx + 1).
RECURSIVE GuardrailWalk(_, _, _, _)
GuardrailWalk(parts, idx, position, restored) ==
    IF idx > Len(parts) THEN TRUE
    ELSE LET part == parts[idx] IN
         IF part = UNK
         THEN LET next_literal == NextLiteral(parts, idx) IN
              IF next_literal = <<>>
              THEN GuardrailWalk(parts, idx + 1, Len(restored), restored)
              ELSE LET next_pos == Find(restored, next_literal, position) IN
                   IF next_pos = -1 THEN FALSE
                   ELSE GuardrailWalk(parts, idx + 1, next_pos, restored)
         ELSE IF part = <<>>
         THEN GuardrailWalk(parts, idx + 1, position, restored)
         ELSE LET end_pos == position + Len(part) IN
              IF Slice(restored, position, end_pos) # part THEN FALSE
              ELSE GuardrailWalk(parts, idx + 1, end_pos, restored)

\* lines 25-52: the placeholders (1-based indices of parts) the loop gets to
\* before it ends
RECURSIVE WalkVisits(_, _, _, _)
WalkVisits(parts, idx, position, restored) ==
    IF idx > Len(parts) THEN {}
    ELSE LET part == parts[idx] IN
         IF part = UNK
         THEN LET next_literal == NextLiteral(parts, idx) IN
              IF next_literal = <<>>
              THEN {idx} \cup WalkVisits(parts, idx + 1, Len(restored), restored)
              ELSE LET next_pos == Find(restored, next_literal, position) IN
                   IF next_pos = -1 THEN {idx}
                   ELSE {idx} \cup WalkVisits(parts, idx + 1, next_pos, restored)
         ELSE IF part = <<>>
         THEN WalkVisits(parts, idx + 1, position, restored)
         ELSE LET end_pos == position + Len(part) IN
              IF Slice(restored, position, end_pos) # part THEN {}
              ELSE WalkVisits(parts, idx + 1, end_pos, restored)

\* lines 16-54
GuardrailOk_NoShortcut(masked, restored) ==
    GuardrailWalk(RegexSplit(masked), 1, 0, restored)
GuardrailOk(masked, restored) ==
    IF masked = restored THEN TRUE
    ELSE GuardrailWalk(RegexSplit(masked), 1, 0, restored)

----------------------------------------------------------------------------
(* Inputs of the guardrail: masked texts and candidate texts               *)

MaxSegs    == 3   \* masked text: at most this many placeholders/characters
MaxCandLen == 3   \* candidate text: at most this many characters

GuardChars == {"a", "b"}

NoResult == [none |-> TRUE]

StringsUpTo(chars, n) == UNION {[1..k -> chars] : k \in 0..n}

RECURSIVE Flatten(_)
Flatten(segs) == IF segs = <<>> THEN <<>> ELSE Head(segs) \o Flatten(Tail(segs))

\* every text made of 0..MaxSegs items, each a placeholder or one character
MaskedTexts ==
    LET items == {UNK} \cup {<<c>> : c \in GuardChars}
    IN  {Flatten(segs) : segs \in UNION {[1..k -> items] : k \in 0..MaxSegs}}

CandidateTexts == StringsUpTo(GuardChars, MaxCandLen)

\* the variables a harness does not use keep these values
IdleRestore ==
    /\ attempts = 0
    /\ guardrail_triggered = FALSE
    /\ guardrail_violated = FALSE
    /\ logger = FALSE
    /\ calls = <<>>
    /\ responses = <<>>
    /\ verdicts = <<>>
    /\ warnings = <<>>
    /\ result = NoResult

IdleMask ==
    /\ raw_text = <<>>
    /\ threshold = 0
    /\ consumed = 0
    /\ masked_count = 0
    /\ search_start = 0
    /\ outcome = "none"
    /\ curEligible = FALSE
    /\ eligible = 0
    /\ maskLog = <<>>
    /\ tokens = NoResult

IdlePages ==
    /\ npages = 0
    /\ dry_run = FALSE
    /\ keep_images = FALSE
    /\ limit = 0
    /\ permits = 0
    /\ waiters = <<>>
    /\ task = <<>>
    /\ ocr_done = <<>>
    /\ cleanup_result = <<>>
    /\ page_result = <<>>
    /\ artifacts = <<>>
    /\ image = <<>>
    /\ results = <<>>
    /\ files = {}

IdleXai ==
    /\ max_attempts = 0
    /\ attempt = 0
    /\ last_error = "none"
    /\ http_log = <<>>
    /\ xai_result = NoResult

\* _guardrail_ok(masked_text, restored_text) is about to be applied
InitGuardrail ==
    /\ pc = "g_input"
    /\ masked_text \in MaskedTexts
    /\ restored_text \in CandidateTexts \cup {masked_text}
    /\ guardrail_result = NoResult
    /\ IdleRestore
    /\ IdleMask
    /\ IdlePages
    /\ IdleXai

\* one application of _guardrail_ok
Verify ==
    /\ pc = "g_input"
    /\ guardrail_result' = GuardrailOk(masked_text, restored_text)
    /\ pc' = "g_verified"
    /\ UNCHANGED <<masked_text, restored_text>>
    /\ UNCHANGED restoreVars
    /\ UNCHANGED maskVars
    /\ UNCHANGED pageVars
    /\ UNCHANGED xaiVars

NextGuardrail == Verify

SpecGuardrail == InitGuardrail /\ [][NextGuardrail]_vars

----------------------------------------------------------------------------
(* grader/ai_cleanup.py : restore                                          *)

\* line 61, in tenths: [0.2, 0.0]
temps_NoCooling == <<2, 2>>
temps == <<2, 0>>

\* lines 70-75: the CleanupResult of an attempt that passed the guardrail
AcceptedResult_KeepsFlagClear(text, n, triggered) ==
    [restored_text |-> text, attempts |-> n,
     guardrail_triggered |-> FALSE, guardrail_violated |-> FALSE]
AcceptedResult_AlwaysFlags(text, n, triggered) ==
    [restored_text |-> text, attempts |-> n,
     guardrail_triggered |-> TRUE, guardrail_violated |-> FALSE]
AcceptedResult(text, n, triggered) ==
    [restored_text |-> text, attempts |-> n,
     guardrail_triggered |-> triggered, guardrail_violated |-> FALSE]

\* line 80
ViolatedAfterLoop_Never(masked, restored) == FALSE
ViolatedAfterLoop(masked, restored) == ~GuardrailOk(masked, restored)

\* lines 84-89
FinalResult_Untriggered(text, n, triggered, violated) ==
    [restored_text |-> text, attempts |-> n,
     guardrail_triggered |-> FALSE, guardrail_violated |-> violated]
FinalResult(text, n, triggered, violated) ==
    [restored_text |-> text, attempts |-> n,
     guardrail_triggered |-> triggered, guardrail_violated |-> violated]

RetryWarning   == "Guardrail violation detected; retrying cleanup with temperature=0.0"
PersistWarning == "Guardrail violation persists after retry; accepting restored text with warning."

\* lines 76-77 and 81-82: if logger: logger.warning(msg)
Warn_Twice(log, ws, msg) == IF log THEN ws \o <<msg, msg>> ELSE ws
Warn(log, ws, msg) == IF log THEN Append(ws, msg) ELSE ws

\* restore(masked_text, client, logger) after lines 58-62
InitRestore ==
    /\ pc = "r_loop"
    /\ masked_text \in MaskedTexts
    /\ logger \in BOOLEAN
    /\ attempts = 0
    /\ guardrail_triggered = FALSE
    /\ guardrail_violated = FALSE
    /\ restored_text = masked_text
    /\ calls = <<>>
    /\ responses = <<>>
    /\ verdicts = <<>>
    /\ warnings = <<>>
    /\ result = NoResult
    /\ guardrail_result = NoResult
    /\ IdleMask
    /\ IdlePages
    /\ IdleXai

\* lines 64-66: next iteration of the for loop; client.restore is called
\* with the original masked text and this attempt's temperature
CallClient ==
    /\ pc = "r_loop"
    /\ attempts < Len(temps)
    /\ attempts' = attempts + 1
    /\ calls' = Append(calls, [text |-> masked_text,
                               temperature |-> temps[attempts + 1]])
    /\ pc' = "r_await"
    /\ UNCHANGED <<masked_text, restored_text, guardrail_result,
                   guardrail_triggered, guardrail_violated, logger,
                   responses, verdicts, warnings, result>>
    /\ UNCHANGED maskVars
    /\ UNCHANGED pageVars
    /\ UNCHANGED xaiVars

\* line 66: the awaited call returns a string
ClientReturns ==
    /\ pc = "r_await"
    /\ \E c \in CandidateTexts \cup {masked_text} :
          /\ restored_text' = c
          /\ responses' = Append(responses, c)
    /\ pc' = "r_check"
    /\ UNCHANGED <<masked_text, guardrail_result, attempts,
                   guardrail_triggered, guardrail_violated, logger,
                   calls, verdicts, warnings, result>>
    /\ UNCHANGED maskVars
    /\ UNCHANGED pageVars
    /\ UNCHANGED xaiVars

\* line 66 sits in no try block: where restore is after the awaited call
\* raised on attempt n
AfterClientError_NextAttempt(n) == IF n < Len(temps) THEN "r_loop" ELSE "r_final"
AfterClientError(n) == "r_raised"

\* line 66: the awaited call raises; restore has no handler
ClientRaises ==
    /\ pc = "r_await"
    /\ pc' = AfterClientError(attempts)
    /\ UNCHANGED <<masked_text, restored_text, guardrail_result>>
    /\ UNCHANGED restoreVars
    /\ UNCHANGED maskVars
    /\ UNCHANGED pageVars
    /\ UNCHANGED xaiVars

\* lines 67-75: the candidate passes; restore returns
GuardrailAccepts ==
    /\ pc = "r_check"
    /\ GuardrailOk(masked_text, restored_text)
    /\ verdicts' = Append(verdicts, TRUE)
    /\ guardrail_triggered' = IF attempts > 1 THEN TRUE ELSE guardrail_triggered
    /\ result' = AcceptedResult(restored_text, attempts, guardrail_triggered')
    /\ pc' = "r_returned"
    /\ UNCHANGED <<masked_text, restored_text, guardrail_result, attempts,
                   guardrail_violated, logger, calls, responses, warnings>>
    /\ UNCHANGED maskVars
    /\ UNCHANGED pageVars
    /\ UNCHANGED xaiVars

\* lines 67, 76-78: the candidate fails; warn, then go on with the loop
GuardrailRejects ==
    /\ pc = "r_check"
    /\ ~GuardrailOk(masked_text, restored_text)
    /\ verdicts' = Append(verdicts, FALSE)
    /\ guardrail_triggered' = TRUE
    /\ warnings' = Warn(logger, warnings, RetryWarning)
    /\ pc' = IF attempts < Len(temps) THEN "r_loop" ELSE "r_final"
    /\ UNCHANGED <<masked_text, restored_text, guardrail_result, attempts,
                   guardrail_violated, logger, calls, responses, result>>
    /\ UNCHANGED maskVars
    /\ UNCHANGED pageVars
    /\ UNCHANGED xaiVars

\* lines 80-89: the loop is exhausted
ReturnAfterLoop ==
    /\ pc = "r_final"
    /\ guardrail_violated' = ViolatedAfterLoop(masked_text, restored_text)
    /\ warnings' = Warn(guardrail_violated' /\ logger, warnings, PersistWarning)
    /\ result' = FinalResult(restored_text, attempts, guardrail_triggered,
                             guardrail_violated')
    /\ pc' = "r_returned"
    /\ UNCHANGED <<masked_text, restored_text, guardrail_result, attempts,
                   guardrail_triggered, logger, calls, responses, verdicts>>
    /\ UNCHANGED maskVars
    /\ UNCHANGED pageVars
    /\ UNCHANGED xaiVars

NextRestore ==
    \/ CallClient
    \/ ClientReturns
    \/ ClientRaises
    \/ GuardrailAccepts
    \/ GuardrailRejects
    \/ ReturnAfterLoop

SpecRestore == InitRestore /\ [][NextRestore]_vars

----------------------------------------------------------------------------
(* grader/ocr.py : _build_masked_text                                      *)

MaxRawLen == 3   \* transcript: at most this many characters
MaxTokLen == 2   \* token text: at most this many characters
MaxTokens == 2   \* at most this many (token, confidence) pairs

\* characters of transcripts and tokens: a letter, a symbol, a blank
MaskChars  == {"a", "]", " "}
Whitespace == {" "}
\* the members of \w among the characters that occur
WordChars  == {"a", "U", "N", "K"}

\* a confidence is a number, a non-numeric string, or None
Confidences ==
    {[kind |-> "num", val |-> v] : v \in {-1, 0, 64, 65}}
    \cup {[kind |-> "str", val |-> 0], [kind |-> "none", val |-> 0]}

Thresholds == {0, 65}

\* line 33: token.strip()
RECURSIVE Strip(_)
Strip(tok) ==
    IF tok = <<>> THEN <<>>
    ELSE IF Head(tok) \in Whitespace THEN Strip(Tail(tok))
    ELSE IF tok[Len(tok)] \in Whitespace THEN Strip(Slice(tok, 0, Len(tok) - 1))
    ELSE tok

\* lines 36-39: float(confidence) -- a value, ValueError or TypeError
FloatOf(confidence) ==
    CASE confidence.kind = "num" -> "value"
      [] confidence.kind = "str" -> "ValueError"
      [] OTHER                   -> "TypeError"

\* line 40
BelowThreshold_NoSignCheck(confidence_val, thr) == confidence_val < thr
BelowThreshold(confidence_val, thr) == confidence_val < thr /\ confidence_val >= 0

\* line 41: regex.match(r"^\w+$", token) on a stripped, non-empty token
IsWord(token) == token # <<>> /\ \A k \in 1..Len(token) : token[k] \in WordChars

\* \b at position p of s
IsBoundary(s, p) ==
    LET before == p > 0 /\ s[p] \in WordChars
        after  == p < Len(s) /\ s[p + 1] \in WordChars
    IN  before # after

\* lines 42-45: pattern.search(masked_text, search_start).start(), or -1
Search(s, token, start) ==
    LET hits == {p \in start..(Len(s) - Len(token)) :
                    /\ MatchAt(s, token, p)
                    /\ IsWord(token) =>
                          IsBoundary(s, p) /\ IsBoundary(s, p + Len(token))}
    IN  IF hits = {} THEN -1 ELSE Min(hits)

\* line 47
ReplaceAt_KeepsToken(text, start, end) ==
    Slice(text, 0, start) \o UNK \o Slice(text, start, Len(text))
ReplaceAt(text, start, end) ==
    Slice(text, 0, start) \o UNK \o Slice(text, end, Len(text))

\* line 48
NextSearchStart_Rescan(start) == 0
NextSearchStart(start) == start + Len(UNK)

\* the claim's notion of a pair that is to be looked up in the transcript
EligiblePair(pair, thr) ==
    /\ Strip(pair.token) # <<>>
    /\ pair.confidence.kind = "num"
    /\ 0 <= pair.confidence.val
    /\ pair.confidence.val < thr

Pairs == [token : StringsUpTo(MaskChars, MaxTokLen), confidence : Confidences]

\* line 32: the pairs zip() can yield next -- any pair when the lists are
\* left open, else the next pair of the given lists
NextPairs ==
    IF tokens = NoResult THEN Pairs
    ELSE IF consumed < Len(tokens.list) THEN {tokens.list[consumed + 1]}
    ELSE {}

\* _build_masked_text(raw_text, tokens, confidences, threshold) after
\* lines 29-31
InitMask ==
    /\ pc = "m_loop"
    /\ raw_text \in StringsUpTo(MaskChars, MaxRawLen)
    /\ threshold \in Thresholds
    /\ masked_text = raw_text
    /\ masked_count = 0
    /\ search_start = 0
    /\ consumed = 0
    /\ outcome = "none"
    /\ curEligible = FALSE
    /\ eligible = 0
    /\ maskLog = <<>>
    /\ tokens = NoResult
    /\ restored_text = <<>>
    /\ guardrail_result = NoResult
    /\ IdleRestore
    /\ IdlePages
    /\ IdleXai

\* line 32: zip() yields another pair, which the loop takes
Consume(pair) ==
    /\ pc = "m_loop"
    /\ tokens = NoResult => consumed < MaxTokens
    /\ consumed' = consumed + 1
    /\ curEligible' = EligiblePair(pair, threshold)
    /\ eligible' = eligible + (IF EligiblePair(pair, threshold) THEN 1 ELSE 0)
    /\ UNCHANGED <<raw_text, threshold, tokens, restored_text, guardrail_result>>
    /\ UNCHANGED restoreVars
    /\ UNCHANGED pageVars
    /\ UNCHANGED xaiVars

NoReplacement == UNCHANGED <<masked_text, masked_count, search_start, maskLog>>

\* lines 33-35: the stripped token is empty
SkipEmptyToken ==
    \E pair \in NextPairs :
        /\ Consume(pair)
        /\ Strip(pair.token) = <<>>
        /\ outcome' = "empty_token"
        /\ pc' = "m_loop"
        /\ NoReplacement

\* lines 36-39: float() raises ValueError
SkipUnparseable ==
    \E pair \in NextPairs :
        /\ Consume(pair)
        /\ Strip(pair.token) # <<>>
        /\ FloatOf(pair.confidence) = "ValueError"
        /\ outcome' = "value_error"
        /\ pc' = "m_loop"
        /\ NoReplacement

\* line 37: float() raises TypeError, which line 38 does not catch
RaiseTypeError ==
    \E pair \in NextPairs :
        /\ Consume(pair)
        /\ Strip(pair.token) # <<>>
        /\ FloatOf(pair.confidence) = "TypeError"
        /\ outcome' = "type_error"
        /\ pc' = "m_raised"
        /\ NoReplacement

\* line 40: the condition is false
SkipConfident ==
    \E pair \in NextPairs :
        /\ Consume(pair)
        /\ Strip(pair.token) # <<>>
        /\ FloatOf(pair.confidence) = "value"
        /\ ~BelowThreshold(pair.confidence.val, threshold)
        /\ outcome' = "not_below"
        /\ pc' = "m_loop"
        /\ NoReplacement

\* lines 40-46: the search finds nothing
SearchMisses ==
    \E pair \in NextPairs :
        /\ Consume(pair)
        /\ Strip(pair.token) # <<>>
        /\ FloatOf(pair.confidence) = "value"
        /\ BelowThreshold(pair.confidence.val, threshold)
        /\ Search(masked_text, Strip(pair.token), search_start) = -1
        /\ outcome' = "no_match"
        /\ pc' = "m_loop"
        /\ NoReplacement

\* lines 40-49: the search finds the token; it is replaced
Replace ==
    \E pair \in NextPairs :
        LET token == Strip(pair.token)
            start == Search(masked_text, token, search_start)
        IN  /\ Consume(pair)
            /\ token # <<>>
            /\ FloatOf(pair.confidence) = "value"
            /\ BelowThreshold(pair.confidence.val, threshold)
            /\ start # -1
            /\ masked_text' = ReplaceAt(masked_text, start, start + Len(token))
            /\ search_start' = NextSearchStart(start)
            /\ masked_count' = masked_count + 1
            /\ maskLog' = Append(maskLog,
                   [token  |-> token,
                    start  |-> start,
                    cursor |-> search_start,
                    \* the same place counted from the end of the text,
                    \* as an index into raw_text
                    orig   |-> Len(raw_text) - (Len(masked_text) - start)])
            /\ outcome' = "replaced"
            /\ pc' = "m_loop"

\* lines 32, 50: zip() is exhausted
ReturnMasked ==
    /\ pc = "m_loop"
    /\ tokens # NoResult => consumed = Len(tokens.list)
    /\ pc' = "m_returned"
    /\ UNCHANGED <<masked_text, restored_text, guardrail_result>>
    /\ UNCHANGED restoreVars
    /\ UNCHANGED maskVars
    /\ UNCHANGED pageVars
    /\ UNCHANGED xaiVars

NextMask ==
    \/ SkipEmptyToken
    \/ SkipUnparseable
    \/ RaiseTypeError
    \/ SkipConfident
    \/ SearchMisses
    \/ Replace
    \/ ReturnMasked

SpecMask == InitMask /\ [][NextMask]_vars

MaxAligned == 3   \* a transcript of at most this many tokens

\* words as OCR reports them, each with a confidence below or at the
\* threshold of config.py (unk_threshold = 65)
AlignedPairs ==
    [token : {<<"a">>, <<"a", "a">>},
     confidence : {[kind |-> "num", val |-> 64], [kind |-> "num", val |-> 65]}]

\* the tokens in reading order, separated by one space
RECURSIVE Transcript(_)
Transcript(toks) ==
    IF toks = <<>> THEN <<>>
    ELSE IF Len(toks) = 1 THEN toks[1].token
    ELSE toks[1].token \o <<" ">> \o Transcript(Tail(toks))

\* _build_masked_text applied to a transcript and the tokens it is made of
InitAligned ==
    /\ pc = "m_loop"
    /\ tokens \in {[list |-> toks] :
                      toks \in UNION {[1..k -> AlignedPairs] : k \in 1..MaxAligned}}
    /\ raw_text = Transcript(tokens.list)
    /\ threshold = 65
    /\ masked_text = raw_text
    /\ masked_count = 0
    /\ search_start = 0
    /\ consumed = 0
    /\ outcome = "none"
    /\ curEligible = FALSE
    /\ eligible = 0
    /\ maskLog = <<>>
    /\ restored_text = <<>>
    /\ guardrail_result = NoResult
    /\ IdleRestore
    /\ IdlePages
    /\ IdleXai

\* the loop outcomes such a transcript can lead to
NextAligned ==
    \/ SkipConfident
    \/ Replace
    \/ ReturnMasked

SpecAligned == InitAligned /\ [][NextAligned]_vars

----------------------------------------------------------------------------
(* grader/cli.py : _process_pages and its worker tasks                     *)

MaxPages   == 2   \* at most this many page images
MaxPermits == 2   \* the semaphore starts with at most this many permits

Pages == 1..npages

\* what restore can hand back to the worker (ai_cleanup.py, lines 70-75 and
\* 84-89); the text itself is left abstract
CleanupResults ==
    {[restored_text |-> "restored", attempts |-> 1,
      guardrail_triggered |-> FALSE, guardrail_violated |-> FALSE],
     [restored_text |-> "restored", attempts |-> 2,
      guardrail_triggered |-> TRUE, guardrail_violated |-> FALSE],
     [restored_text |-> "restored", attempts |-> 2,
      guardrail_triggered |-> TRUE, guardrail_violated |-> TRUE]}

\* lines 117-124; page is page_label = page_index + 1
SuccessRecord_FlagsSwapped(page, cr, output) ==
    [status |-> "success", page |-> page, output |-> output,
     guardrail_triggered |-> cr.guardrail_violated,
     guardrail_violated |-> cr.guardrail_triggered]
SuccessRecord(page, cr, output) ==
    [status |-> "success", page |-> page, output |-> output,
     guardrail_triggered |-> cr.guardrail_triggered,
     guardrail_violated |-> cr.guardrail_violated]

\* naming.py: the filename stems extract_first_name can yield; the second
\* is the first followed by "_2"
Stems == {<<"a">>, <<"a", "_", "2">>}

\* export.py lines 12 and 15: f"{stem}.pdf" and f"{stem}_{counter}.pdf"
PathOf(stem, counter) ==
    IF counter = 1 THEN stem \o <<".pdf">>
    ELSE stem \o <<"_", ToString(counter), ".pdf">>

\* export.py lines 10-16: the first candidate that does not exist
RECURSIVE FirstFree(_, _, _)
FirstFree(existing, stem, counter) ==
    IF PathOf(stem, counter) \notin existing THEN PathOf(stem, counter)
    ELSE FirstFree(existing, stem, counter + 1)

EnsureUniquePath_NoCheck(existing, stem) == PathOf(stem, 1)
EnsureUniquePath(existing, stem) == FirstFree(existing, stem, 1)

\* cli.py lines 89-99: the output path of a page, and the files after it
OutputPath(stem) ==
    IF dry_run THEN PathOf(stem, 1) ELSE EnsureUniquePath(files, stem)
FilesAfterExport(stem) ==
    IF dry_run THEN files ELSE files \cup {OutputPath(stem)}

\* cli.py lines 87-99 raising: nothing was written, or write_pdf failed
\* while saving and left the file it had begun (export.py line 76)
FilesAfterFailedExport ==
    {files} \cup {FilesAfterExport(stem) : stem \in Stems}

\* lines 135-139; error stands for str(exc) and tells where the page failed
FailedRecord(page, error) ==
    [status |-> "failed", page |-> page, error |-> error]

\* lines 127-133: the artifacts dict handed to _write_artifacts
FailureArtifacts(ocr_set, cr) ==
    [raw      |-> ocr_set,
     masked   |-> ocr_set,
     restored |-> IF cr # NoResult THEN cr.restored_text ELSE ""]

\* lines 140-145: the image after the finally block; unlink removes it or
\* raises OSError, which is swallowed and leaves the image where it is
ImagesAfterFinally_IgnoresFlag(img) ==
    IF img = "present" THEN {"removed", "unlink_failed"} ELSE {img}
ImagesAfterFinally(img) ==
    IF ~keep_images /\ img = "present" THEN {"removed", "unlink_failed"}
    ELSE {img}

\* asyncio.Semaphore.acquire takes a permit at once iff one is free and
\* nobody is queued
CanAcquire_Unbounded == TRUE
CanAcquire == permits > 0 /\ waiters = <<>>

\* _process_pages after line 147: every task is created, none has run
InitPages ==
    /\ pc = "p_gather"
    /\ npages \in 1..MaxPages
    /\ limit \in 1..MaxPermits
    /\ dry_run \in BOOLEAN
    /\ keep_images \in BOOLEAN
    /\ permits = limit
    /\ waiters = <<>>
    /\ task = [p \in Pages |-> "created"]
    /\ ocr_done = [p \in Pages |-> FALSE]
    /\ cleanup_result = [p \in Pages |-> NoResult]
    /\ page_result = [p \in Pages |-> NoResult]
    /\ artifacts = [p \in Pages |-> NoResult]
    /\ image = [p \in Pages |-> "present"]
    /\ results = <<>>
    /\ files = {}
    /\ masked_text = <<>>
    /\ restored_text = <<>>
    /\ guardrail_result = NoResult
    /\ IdleRestore
    /\ IdleMask
    /\ IdleXai

PagesFrame ==
    /\ UNCHANGED <<masked_text, restored_text, guardrail_result>>
    /\ UNCHANGED restoreVars
    /\ UNCHANGED maskVars
    /\ UNCHANGED xaiVars

Running(p) == task[p] \in {"ocr", "restore", "restore_retry"}

\* line 85: the worker awaits restore, which awaits the client's first
\* answer ("restore") or, after a rejected candidate, its second
AwaitingRestore(p) == task[p] \in {"restore", "restore_retry"}

\* the CleanupResults restore can return from where it is
ResultsOf(p) ==
    {cr \in CleanupResults :
        cr.attempts = (IF task[p] = "restore" THEN 1 ELSE 2)}

\* line 74: the task starts and reaches semaphore.acquire(); with a permit
\* it goes on to the OCR call of line 80
StartAcquires(p) ==
    /\ task[p] = "created"
    /\ pc \in {"p_gather", "p_raised"}
    /\ CanAcquire
    /\ permits' = permits - 1
    /\ task' = [task EXCEPT ![p] = "ocr"]
    /\ UNCHANGED <<pc, npages, dry_run, keep_images, limit, waiters, ocr_done,
                   cleanup_result, page_result, artifacts, image, results,
                   files>>
    /\ PagesFrame

\* line 74: no permit is free; the task queues
StartWaits(p) ==
    /\ task[p] = "created"
    /\ pc \in {"p_gather", "p_raised"}
    /\ ~CanAcquire
    /\ waiters' = Append(waiters, p)
    /\ task' = [task EXCEPT ![p] = "waiting"]
    /\ UNCHANGED <<pc, npages, dry_run, keep_images, limit, permits, ocr_done,
                   cleanup_result, page_result, artifacts, image, results,
                   files>>
    /\ PagesFrame

\* line 74: a released permit goes to the first queued task
Wake(p) ==
    /\ task[p] = "waiting"
    /\ waiters # <<>>
    /\ Head(waiters) = p
    /\ permits > 0
    /\ permits' = permits - 1
    /\ waiters' = Tail(waiters)
    /\ task' = [task EXCEPT ![p] = "ocr"]
    /\ UNCHANGED <<pc, npages, dry_run, keep_images, limit, ocr_done,
                   cleanup_result, page_result, artifacts, image, results,
                   files>>
    /\ PagesFrame

\* lines 80-85: OCR returns; the task goes on to await restore
OcrReturns(p) ==
    /\ task[p] = "ocr"
    /\ ocr_done' = [ocr_done EXCEPT ![p] = TRUE]
    /\ task' = [task EXCEPT ![p] = "restore"]
    /\ UNCHANGED <<pc, npages, dry_run, keep_images, limit, permits, waiters,
                   cleanup_result, page_result, artifacts, image, results,
                   files>>
    /\ PagesFrame

\* lines 140-145 and the exit of "async with": the finally block runs and
\* the permit is released
LeaveWorker(p) ==
    /\ \E img \in ImagesAfterFinally(image[p]) :
          image' = [image EXCEPT ![p] = img]
    /\ permits' = permits + 1
    /\ UNCHANGED <<pc, npages, dry_run, keep_images, limit, waiters, results>>
    /\ PagesFrame

\* lines 125-139: the except block writes the artifacts and the worker
\* returns a failure record
HandleFailure(p, cr, error) ==
    /\ artifacts' = [artifacts EXCEPT ![p] = FailureArtifacts(ocr_done[p], cr)]
    /\ page_result' = [page_result EXCEPT ![p] = FailedRecord(p, error)]
    /\ task' = [task EXCEPT ![p] = "returned"]
    /\ LeaveWorker(p)

\* lines 125-134: _write_artifacts raises inside the except block; the
\* exception leaves the worker
ArtifactsRaise(p) ==
    /\ task' = [task EXCEPT ![p] = "raised"]
    /\ UNCHANGED <<artifacts, page_result>>
    /\ LeaveWorker(p)

\* line 80 raises
OcrFails(p) ==
    /\ task[p] = "ocr"
    /\ UNCHANGED <<ocr_done, cleanup_result, files>>
    /\ HandleFailure(p, NoResult, "ocr")

OcrFailsUnrecorded(p) ==
    /\ task[p] = "ocr"
    /\ UNCHANGED <<ocr_done, cleanup_result, files>>
    /\ ArtifactsRaise(p)

\* line 85 with ai_cleanup.py lines 66-78: the guardrail rejects the first
\* candidate and restore calls the client again
RestoreRetries(p) ==
    /\ task[p] = "restore"
    /\ task' = [task EXCEPT ![p] = "restore_retry"]
    /\ UNCHANGED <<pc, npages, dry_run, keep_images, limit, permits, waiters,
                   ocr_done, cleanup_result, page_result, artifacts, image,
                   results, files>>
    /\ PagesFrame

\* line 85 raises: the client's call raised inside restore
RestoreFails(p) ==
    /\ AwaitingRestore(p)
    /\ UNCHANGED <<ocr_done, cleanup_result, files>>
    /\ HandleFailure(p, NoResult,
                     IF task[p] = "restore" THEN "client_call_1"
                     ELSE "client_call_2")

RestoreFailsUnrecorded(p) ==
    /\ AwaitingRestore(p)
    /\ UNCHANGED <<ocr_done, cleanup_result, files>>
    /\ ArtifactsRaise(p)

\* lines 85-124: restore returns, naming and export succeed
PageSucceeds(p) ==
    /\ AwaitingRestore(p)
    /\ \E cr \in ResultsOf(p), stem \in Stems :
          /\ cleanup_result' = [cleanup_result EXCEPT ![p] = cr]
          /\ page_result' = [page_result EXCEPT ![p] =
                                SuccessRecord(p, cr, OutputPath(stem))]
          /\ files' = FilesAfterExport(stem)
    /\ task' = [task EXCEPT ![p] = "returned"]
    /\ UNCHANGED <<ocr_done, artifacts>>
    /\ LeaveWorker(p)

\* lines 85-100: restore returns, then extract_first_name or write_pdf raises
TailFails(p) ==
    /\ AwaitingRestore(p)
    /\ \E cr \in ResultsOf(p) :
          /\ cleanup_result' = [cleanup_result EXCEPT ![p] = cr]
          /\ HandleFailure(p, cr, "naming_or_export")
    /\ files' \in FilesAfterFailedExport
    /\ UNCHANGED ocr_done

TailFailsUnrecorded(p) ==
    /\ AwaitingRestore(p)
    /\ \E cr \in ResultsOf(p) :
          cleanup_result' = [cleanup_result EXCEPT ![p] = cr]
    /\ files' \in FilesAfterFailedExport
    /\ UNCHANGED ocr_done
    /\ ArtifactsRaise(p)

\* lines 148-150: every task has returned; gather hands back the records
\* in page order
GatherReturns ==
    /\ pc = "p_gather"
    /\ \A p \in Pages : task[p] = "returned"
    /\ results' = [p \in Pages |-> page_result[p]]
    /\ pc' = "p_returned"
    /\ UNCHANGED <<npages, dry_run, keep_images, limit, permits, waiters, task,
                   ocr_done, cleanup_result, page_result, artifacts, image,
                   files>>
    /\ PagesFrame

\* line 148: a task ended with an exception; gather raises it into
\* _process_pages, which has no handler
GatherRaises ==
    /\ pc = "p_gather"
    /\ \E p \in Pages : task[p] = "raised"
    /\ pc' = "p_raised"
    /\ UNCHANGED pageVars
    /\ PagesFrame

\* line 233: asyncio.run ends with the exception and cancels the tasks that
\* are still pending; a cancelled worker runs its finally block and gives
\* its permit back
CancelPending ==
    /\ pc = "p_raised"
    /\ task' = [p \in Pages |->
                   IF task[p] \in {"returned", "raised"} THEN task[p]
                   ELSE "cancelled"]
    /\ image' \in [Pages -> {"present", "removed", "unlink_failed"}]
    /\ \A p \in Pages :
          image'[p] \in (IF Running(p) THEN ImagesAfterFinally(image[p])
                         ELSE {image[p]})
    /\ permits' = permits + Cardinality({p \in Pages : Running(p)})
    /\ waiters' = <<>>
    /\ pc' = "p_aborted"
    /\ UNCHANGED <<npages, dry_run, keep_images, limit, ocr_done,
                   cleanup_result, page_result, artifacts, results,
                   files>>
    /\ PagesFrame

\* main, lines 235-237: the lists the run summary is made of
IsSuccess(r) == r.status = "success"
IsFailed(r) == r.status = "failed"
IsFlagged(r) == r.guardrail_violated
success(res) == SelectSeq(res, IsSuccess)
failed(res) == SelectSeq(res, IsFailed)
guardrail_flags(res) == SelectSeq(success(res), IsFlagged)

NextPages ==
    \/ \E p \in Pages : StartAcquires(p)
    \/ \E p \in Pages : StartWaits(p)
    \/ \E p \in Pages : Wake(p)
    \/ \E p \in Pages : OcrReturns(p)
    \/ \E p \in Pages : OcrFails(p)
    \/ \E p \in Pages : OcrFailsUnrecorded(p)
    \/ \E p \in Pages : RestoreRetries(p)
    \/ \E p \in Pages : RestoreFails(p)
    \/ \E p \in Pages : RestoreFailsUnrecorded(p)
    \/ \E p \in Pages : PageSucceeds(p)
    \/ \E p \in Pages : TailFails(p)
    \/ \E p \in Pages : TailFailsUnrecorded(p)
    \/ GatherReturns
    \/ GatherRaises
    \/ CancelPending

SpecPages == InitPages /\ [][NextPages]_vars

\* every collaborator call comes back and the event loop runs whatever
\* task is ready
SpecPagesFair == SpecPages /\ WF_vars(NextPages)

----------------------------------------------------------------------------
(* grader/clients/xai_client.py : XAIClient.restore and _handle_retry      *)

MaxAttempts        == 3   \* restore is called with max_attempts up to this
DefaultMaxAttempts == 3   \* line 57: max_attempts: int = 3

\* line 74
retryable == {429, 500, 502, 503, 504}

\* what one POST can come to: the request itself fails, or a response with
\* a status arrives; a 200 response carries a body
Statuses == retryable \cup {200, 400}
Bodies   == {"content", "no_choices", "no_content"}

\* the Retry-After header of a response: absent, a number of seconds, text
\* that float() rejects, or text that float() reads as infinity ("inf")
RetryAfterHints ==
    {[kind |-> "absent", secs |-> 0], [kind |-> "seconds", secs |-> 5],
     [kind |-> "text", secs |-> 0], [kind |-> "inf", secs |-> 0]}

\* 2 ** attempt
Backoff(n) == 2 ^ n

\* lines 98-105: the delay before the jitter of line 106; jitter keeps a
\* finite delay finite and an infinite one infinite
RetryDelay(hint, n) ==
    CASE hint.kind = "seconds" -> [finite |-> TRUE, secs |-> hint.secs]
      [] hint.kind = "inf"     -> [finite |-> FALSE, secs |-> 0]
      [] OTHER                 -> [finite |-> TRUE, secs |-> Backoff(n)]

\* lines 77 and 90-92: the attempt is the last one allowed
IsFinalAttempt(n, cap) == n >= cap

\* lines 83-89: what the body of a 200 response leads to
BodyError(body) ==
    CASE body = "no_choices" -> "ValueError_choices"
      [] body = "no_content" -> "ValueError_content"
      [] OTHER               -> "none"

\* restore(masked_text, max_attempts = ...) has reached the loop of line 79
InitXai ==
    /\ pc = "x_loop"
    /\ max_attempts \in (0..MaxAttempts) \cup {DefaultMaxAttempts}
    /\ attempt = 0
    /\ last_error = "none"
    /\ http_log = <<>>
    /\ xai_result = NoResult
    /\ masked_text = <<>>
    /\ restored_text = <<>>
    /\ guardrail_result = NoResult
    /\ IdleRestore
    /\ IdleMask
    /\ IdlePages

XaiFrame ==
    /\ UNCHANGED <<masked_text, restored_text, guardrail_result>>
    /\ UNCHANGED restoreVars
    /\ UNCHANGED maskVars
    /\ UNCHANGED pageVars

\* lines 79-82: the loop condition holds; the request is sent
SendRequest ==
    /\ pc = "x_loop"
    /\ ~IsFinalAttempt(attempt, max_attempts)
    /\ attempt' = attempt + 1
    /\ http_log' = Append(http_log, [ev |-> "request", attempt |-> attempt + 1])
    /\ pc' = "x_post"
    /\ UNCHANGED <<max_attempts, last_error, xai_result>>
    /\ XaiFrame

\* lines 79 and 95: the loop condition fails; RuntimeError is raised
LoopExhausted ==
    /\ pc = "x_loop"
    /\ IsFinalAttempt(attempt, max_attempts)
    /\ xai_result' = [raised |-> "RuntimeError", cause |-> last_error]
    /\ pc' = "x_raised"
    /\ UNCHANGED <<max_attempts, attempt, last_error, http_log>>
    /\ XaiFrame

\* lines 90-93: the except block; the error is re-raised on the final
\* attempt, else restore sleeps 2 ** attempt
HandleError(err, logged) ==
    /\ last_error' = err
    /\ IF IsFinalAttempt(attempt, max_attempts)
       THEN /\ xai_result' = [raised |-> err, cause |-> "none"]
            /\ http_log' = logged
            /\ pc' = "x_raised"
       ELSE /\ http_log' = Append(logged,
                             [ev |-> "sleep",
                              delay |-> [finite |-> TRUE, secs |-> Backoff(attempt)]])
            /\ pc' = "x_sleep"
            /\ UNCHANGED xai_result
    /\ UNCHANGED <<max_attempts, attempt>>
    /\ XaiFrame

\* line 82: the POST raises (connection error, timeout)
PostRaises ==
    /\ pc = "x_post"
    /\ HandleError("TransportError",
                   Append(http_log, [ev |-> "error", attempt |-> attempt]))

\* lines 83-84 and 97-109: a retryable status on a non-final attempt;
\* _handle_retry sleeps and the loop continues
RetryableBackoff ==
    /\ pc = "x_post"
    /\ ~IsFinalAttempt(attempt, max_attempts)
    /\ \E st \in retryable, hint \in RetryAfterHints :
          http_log' = http_log \o
              <<[ev |-> "response", attempt |-> attempt, status |-> st],
                [ev |-> "sleep", delay |-> RetryDelay(hint, attempt)]>>
    /\ pc' = "x_sleep"
    /\ UNCHANGED <<max_attempts, attempt, last_error, xai_result>>
    /\ XaiFrame

\* lines 83-84, 107-108 and 90-92: a retryable status on the final attempt;
\* _handle_retry raises HTTPStatusError, which the except block re-raises
RetryableFinal ==
    /\ pc = "x_post"
    /\ IsFinalAttempt(attempt, max_attempts)
    /\ \E st \in retryable :
          HandleError("HTTPStatusError",
                      Append(http_log, [ev |-> "response", attempt |-> attempt,
                                        status |-> st]))

\* line 86: raise_for_status() raises for another error status
StatusRaises ==
    /\ pc = "x_post"
    /\ \E st \in Statuses \ (retryable \cup {200}) :
          HandleError("HTTPStatusError",
                      Append(http_log, [ev |-> "response", attempt |-> attempt,
                                        status |-> st]))

\* lines 87-93: a 200 response without choices or without content
BodyRaises ==
    /\ pc = "x_post"
    /\ \E body \in Bodies :
          /\ BodyError(body) # "none"
          /\ HandleError(BodyError(body),
                         Append(http_log, [ev |-> "response", attempt |-> attempt,
                                           status |-> 200]))

\* lines 87-89: a 200 response with content; restore returns it
ReturnContent ==
    /\ pc = "x_post"
    /\ \E body \in Bodies :
          /\ BodyError(body) = "none"
          /\ xai_result' = [returned |-> body]
    /\ http_log' = Append(http_log, [ev |-> "response", attempt |-> attempt,
                                     status |-> 200])
    /\ pc' = "x_returned"
    /\ UNCHANGED <<max_attempts, attempt, last_error>>
    /\ XaiFrame

\* lines 93 and 109: asyncio.sleep(delay) ends; a sleep without end never
\* does
SleepEnds ==
    /\ pc = "x_sleep"
    /\ http_log[Len(http_log)].delay.finite
    /\ pc' = "x_loop"
    /\ UNCHANGED xaiVars
    /\ XaiFrame

NextXai ==
    \/ SendRequest
    \/ LoopExhausted
    \/ PostRaises
    \/ RetryableBackoff
    \/ RetryableFinal
    \/ StatusRaises
    \/ BodyRaises
    \/ ReturnContent
    \/ SleepEnds

SpecXai == InitXai /\ [][NextXai]_vars

\* the event loop resumes restore whenever the operation it awaits is over
SpecXaiFair == SpecXai /\ WF_vars(NextXai)

----------------------------------------------------------------------------
(* restore (ai_cleanup.py) driven through XAIClient.restore                *)

\* xai_client.py, line 89: content.strip("\n")
RECURSIVE StripNewlines(_)
StripNewlines(s) ==
    IF s = <<>> THEN <<>>
    ELSE IF Head(s) = "\n" THEN StripNewlines(Tail(s))
    ELSE IF s[Len(s)] = "\n" THEN StripNewlines(Slice(s, 0, Len(s) - 1))
    ELSE s

\* a page's text: letters and line breaks
PageChars == {"a", "\n"}

\* masked transcripts of 0..MaxSegs items, each a placeholder, a letter or
\* a line break
PageMaskedTexts ==
    LET items == {UNK} \cup {<<c>> : c \in PageChars}
    IN  {Flatten(segs) : segs \in UNION {[1..k -> items] : k \in 0..MaxSegs}}

\* what the completion model can put into message.content
RawContents == StringsUpTo(PageChars, MaxCandLen)

\* restore(masked_text, client = XAIClient) after lines 58-62
InitPipeline ==
    /\ pc = "r_loop"
    /\ masked_text \in PageMaskedTexts
    /\ logger = FALSE
    /\ attempts = 0
    /\ guardrail_triggered = FALSE
    /\ guardrail_violated = FALSE
    /\ restored_text = masked_text
    /\ calls = <<>>
    /\ responses = <<>>
    /\ verdicts = <<>>
    /\ warnings = <<>>
    /\ result = NoResult
    /\ guardrail_result = NoResult
    /\ IdleMask
    /\ IdlePages
    /\ IdleXai

\* ai_cleanup.py line 66 with xai_client.py lines 82-89: the request is
\* answered with content, which XAIClient.restore strips of leading and
\* trailing line breaks before it returns it
ClientReturnsContent ==
    /\ pc = "r_await"
    /\ \E raw \in RawContents \cup {masked_text} :
          /\ http_log' = Append(http_log, [ev |-> "content", raw |-> raw])
          /\ xai_result' = [returned |-> StripNewlines(raw)]
          /\ restored_text' = StripNewlines(raw)
          /\ responses' = Append(responses, StripNewlines(raw))
    /\ pc' = "r_check"
    /\ UNCHANGED <<masked_text, guardrail_result, attempts,
                   guardrail_triggered, guardrail_violated, logger,
                   calls, verdicts, warnings, result>>
    /\ UNCHANGED <<max_attempts, attempt, last_error>>
    /\ UNCHANGED maskVars
    /\ UNCHANGED pageVars

NextPipeline ==
    \/ CallClient
    \/ ClientReturnsContent
    \/ ClientRaises
    \/ GuardrailAccepts
    \/ GuardrailRejects
    \/ ReturnAfterLoop

SpecPipeline == InitPipeline /\ [][NextPipeline]_vars

----------------------------------------------------------------------------
(* Reference notions the guardrail laws are stated with                    *)

HasPlaceholder(s) == Find(s, UNK, 0) # -1

\* c is parts (a split masked text) with every placeholder replaced by a
\* filler of at least minFill characters and every literal left as it is
RECURSIVE IsFillOf(_, _, _)
IsFillOf(parts, c, minFill) ==
    LET lit == parts[1] IN
    /\ MatchAt(c, lit, 0)
    /\ IF Len(parts) = 1
       THEN Len(c) = Len(lit)
       ELSE \E k \in minFill..(Len(c) - Len(lit)) :
               IsFillOf(Tail(Tail(parts)), Slice(c, Len(lit) + k, Len(c)), minFill)

LiteralIdx(parts) == {j \in 1..Len(parts) : j % 2 = 1}

\* lit with one character substituted or one character deleted
AlteredLiterals(lit) ==
    UNION {{[lit EXCEPT ![k] = d] : d \in GuardChars \ {lit[k]}} : k \in 1..Len(lit)}
    \cup {Slice(lit, 0, k - 1) \o Slice(lit, k, Len(lit)) : k \in 1..Len(lit)}

\* parts with one literal segment altered or deleted, or two literal
\* segments exchanged
Tamperings(parts) ==
    UNION {{[parts EXCEPT ![j] = alt] : alt \in AlteredLiterals(parts[j])}
              \cup {[parts EXCEPT ![j] = parts[k], ![k] = parts[j]] :
                      k \in {i \in LiteralIdx(parts) : parts[i] # parts[j]}} :
           j \in LiteralIdx(parts)}

\* C1: containment law -- whenever the masked text has a placeholder and the
\* candidate is the masked text with every placeholder replaced by a
\* non-empty filler, _guardrail_ok returns true.
C1_Containment ==
    (/\ pc = "g_verified"
     /\ HasPlaceholder(masked_text)
     /\ IsFillOf(RegexSplit(masked_text), restored_text, 1))
    => guardrail_result = TRUE

\* C2: tamper law -- whenever the candidate is a fill-in of the masked text
\* with a literal segment altered, deleted or reordered, and is no fill-in
\* of the masked text itself, _guardrail_ok returns false.
C2_Tamper ==
    (/\ pc = "g_verified"
     /\ \E t \in Tamperings(RegexSplit(masked_text)) : IsFillOf(t, restored_text, 1)
     /\ ~IsFillOf(RegexSplit(masked_text), restored_text, 0))
    => guardrail_result = FALSE

----------------------------------------------------------------------------
(* Laws of the restoration orchestrator                                    *)

Passed(k) == GuardrailOk(masked_text, responses[k])

\* C3: exhaustion law -- when the candidates of attempt 1 and attempt 2
\* both fail the guardrail against the original masked text, restore
\* returns the attempt-2 candidate with attempts = 2 and both flags true.
C3_Exhaustion ==
    (/\ pc = "r_returned"
     /\ Len(responses) = 2
     /\ ~Passed(1)
     /\ ~Passed(2))
    => result = [restored_text |-> responses[2], attempts |-> 2,
                 guardrail_triggered |-> TRUE, guardrail_violated |-> TRUE]

\* both attempts failed with two different non-empty candidates, and the
\* second one came back
C3_Witness ==
    /\ pc = "r_returned"
    /\ Len(responses) = 2
    /\ ~Passed(1)
    /\ ~Passed(2)
    /\ responses[2] # responses[1]
    /\ responses[2] # <<>>
    /\ result.restored_text = responses[2]
    /\ result.guardrail_violated

\* C4: escalation law -- when the attempt-1 candidate fails the guardrail
\* and the attempt-2 candidate passes it, restore returns the attempt-2
\* candidate with attempts = 2, guardrail_triggered and not
\* guardrail_violated.
C4_Escalation ==
    (/\ pc = "r_returned"
     /\ Len(responses) = 2
     /\ ~Passed(1)
     /\ Passed(2))
    => result = [restored_text |-> responses[2], attempts |-> 2,
                 guardrail_triggered |-> TRUE, guardrail_violated |-> FALSE]

C4_Witness ==
    /\ pc = "r_returned"
    /\ Len(responses) = 2
    /\ ~Passed(1)
    /\ Passed(2)
    /\ HasPlaceholder(masked_text)
    /\ responses[2] # masked_text
    /\ result.attempts = 2

\* C5: when the attempt-1 candidate passes the guardrail, no second call is
\* ever made, and restore returns that candidate with attempts = 1 and both
\* flags false after exactly one call of the client.
C5_FirstAttemptAccepted ==
    (Len(responses) >= 1 /\ Passed(1))
    => /\ Len(calls) = 1
       /\ pc \in {"r_check", "r_returned"}
       /\ pc = "r_returned" =>
             result = [restored_text |-> responses[1], attempts |-> 1,
                       guardrail_triggered |-> FALSE,
                       guardrail_violated |-> FALSE]

C5_Witness ==
    /\ pc = "r_returned"
    /\ Len(responses) = 1
    /\ Passed(1)
    /\ HasPlaceholder(masked_text)
    /\ responses[1] # masked_text
    /\ result.attempts = 1
    /\ Len(calls) = 1

\* C6: attempt schedule -- the client is called at most twice; the first
\* call uses temperature 0.2 and the second 0.0; the second call is made
\* only after the first candidate was verified and failed; both calls
\* receive the original masked text.
C6_Schedule ==
    /\ Len(calls) <= 2
    /\ \A k \in 1..Len(calls) : calls[k].text = masked_text
    /\ Len(calls) >= 1 => calls[1].temperature = 2
    /\ Len(calls) = 2 =>
          /\ calls[2].temperature = 0
          /\ Len(responses) >= 1
          /\ Len(verdicts) >= 1
          /\ verdicts[1] = FALSE
          /\ ~Passed(1)

\* the second call has been made, with a first candidate that differs from
\* the masked text
C6_Witness ==
    /\ pc = "r_await"
    /\ Len(calls) = 2
    /\ responses[1] # masked_text
    /\ calls[2].text = masked_text
    /\ calls[2].temperature = 0

----------------------------------------------------------------------------
(* Laws of the token masker                                                *)

\* number of occurrences of the placeholder in s, scanning left to right
RECURSIVE CountUNK(_)
CountUNK(s) ==
    LET p == Find(s, UNK, 0)
    IN  IF p = -1 THEN 0 ELSE 1 + CountUNK(Slice(s, p + Len(UNK), Len(s)))

\* s with its k-th placeholder, left to right, replaced by toks[k]
RECURSIVE Unmask(_, _)
Unmask(s, toks) ==
    LET p == Find(s, UNK, 0)
    IN  IF p = -1 \/ toks = <<>> THEN s
        ELSE Slice(s, 0, p) \o Head(toks)
                 \o Unmask(Slice(s, p + Len(UNK), Len(s)), Tail(toks))

MaskedTokens == [k \in 1..Len(maskLog) |-> maskLog[k].token]

\* C7: masked transcript invariant -- for a transcript without the
\* placeholder, the number of placeholders in the masked text equals the
\* count; the replaced spans of the transcript do not overlap; and putting
\* the k-th masked token back for the k-th placeholder gives the transcript.
C7_MaskedTranscript ==
    ~HasPlaceholder(raw_text) =>
        /\ CountUNK(masked_text) = masked_count
        /\ Len(maskLog) = masked_count
        /\ \A k \in 1..Len(maskLog) :
              /\ MatchAt(raw_text, maskLog[k].token, maskLog[k].orig)
              /\ k > 1 => maskLog[k - 1].orig + Len(maskLog[k - 1].token)
                             <= maskLog[k].orig
        /\ Unmask(masked_text, MaskedTokens) = raw_text

\* two tokens have been replaced and the call has returned
C7_Witness ==
    /\ pc = "m_returned"
    /\ masked_count = 2
    /\ CountUNK(masked_text) = 2
    /\ maskLog[1].token # maskLog[2].token
    /\ Unmask(masked_text, MaskedTokens) = raw_text

\* C8: masking boundary law -- a replaced token made solely of word
\* characters sat, in the original transcript, between word boundaries.
C8_Boundary ==
    \A k \in 1..Len(maskLog) :
        IsWord(maskLog[k].token) =>
            /\ MatchAt(raw_text, maskLog[k].token, maskLog[k].orig)
            /\ IsBoundary(raw_text, maskLog[k].orig)
            /\ IsBoundary(raw_text, maskLog[k].orig + Len(maskLog[k].token))

\* C9: masking order law -- the cursor never decreases; every match starts
\* at or after the cursor of its search; and the placeholders stand in the
\* masked text in the order in which their tokens were supplied.
C9_CursorAndOrder ==
    /\ [][search_start' >= search_start]_vars
    /\ [](\A k \in 1..Len(maskLog) :
             /\ maskLog[k].start >= maskLog[k].cursor
             /\ MatchAt(masked_text, UNK, maskLog[k].start)
             /\ maskLog[k].start + Len(UNK) <= search_start
             /\ k > 1 => maskLog[k - 1].start + Len(UNK) <= maskLog[k].start)

\* a second replacement was made strictly after the cursor left by the first
C9_Witness ==
    /\ Len(maskLog) = 2
    /\ maskLog[2].cursor = maskLog[1].start + Len(UNK)
    /\ maskLog[2].start > maskLog[2].cursor
    /\ search_start = maskLog[2].start + Len(UNK)

\* C10: masking eligibility -- the pair just consumed led to a search of the
\* transcript exactly if its trimmed token is non-empty and its confidence
\* is a number with 0 <= confidence < threshold; while no eligible pair has
\* been consumed (so always when threshold = 0) the masked text is the
\* transcript and the count is 0; the count never exceeds the number of
\* eligible pairs.
C10_Eligibility ==
    /\ consumed >= 1 =>
          (outcome \in {"no_match", "replaced"} <=> curEligible)
    /\ eligible = 0 => (masked_text = raw_text /\ masked_count = 0)
    /\ threshold = 0 => (masked_text = raw_text /\ masked_count = 0)
    /\ masked_count <= eligible

\* the token of an eligible pair was replaced after a pair that was not
\* eligible had been passed over
C10_Witness ==
    /\ pc = "m_returned"
    /\ consumed = 2
    /\ eligible = 1
    /\ curEligible
    /\ masked_count = 1
    /\ outcome = "replaced"
    /\ threshold = 65

----------------------------------------------------------------------------
(* Laws of the page coordinator                                            *)

\* C11: failure isolation -- no exception leaves a worker, so the gather is
\* never aborted and no sibling page is cut short: every task that ends,
\* ends by returning its record.
C11_Isolation ==
    /\ pc \notin {"p_raised", "p_aborted"}
    /\ \A p \in Pages : task[p] \notin {"raised", "cancelled"}

\* C12: concurrency bound -- at most limit workers are between acquiring
\* and releasing the semaphore.
C12_Bound ==
    /\ Cardinality({p \in Pages : Running(p)}) <= limit
    /\ permits + Cardinality({p \in Pages : Running(p)}) = limit

\* the limiter is full while another page waits for a permit
C12_Witness ==
    /\ Cardinality({p \in Pages : Running(p)}) = limit
    /\ permits = 0
    /\ waiters # <<>>

----------------------------------------------------------------------------
(* Laws of restore, continued                                              *)

\* C13: restore does not retry collaborator failures -- when the client
\* raises on attempt 1 or 2 the exception leaves restore: the raising call
\* is the last call, no CleanupResult is returned, and nothing happens
\* afterwards; a second call is only ever made after the guardrail rejected
\* the first response.
C13_NoRetry ==
    /\ [](pc = "r_raised" =>
             /\ result = NoResult
             /\ Len(calls) = attempts
             /\ Len(responses) = attempts - 1)
    /\ [](Len(calls) >= 2 =>
             /\ Len(responses) >= 1
             /\ Len(verdicts) >= 1
             /\ verdicts[1] = FALSE)
    /\ [][pc = "r_raised" => (pc' = pc /\ calls' = calls /\ result' = result)]_vars

\* the client raised on the second attempt, after a guardrail failure
C13_Witness ==
    /\ pc = "r_raised"
    /\ Len(calls) = 2
    /\ verdicts = <<FALSE>>

----------------------------------------------------------------------------
(* Laws of _build_masked_text, continued                                   *)

\* C14: masking never raises for malformed input -- whatever the pairs,
\* a non-numeric or missing confidence included, no pair makes
\* _build_masked_text end with an exception.
C14_NeverRaises ==
    /\ pc # "m_raised"
    /\ outcome # "type_error"

----------------------------------------------------------------------------
(* Laws of _guardrail_ok, continued                                        *)

\* C15: guardrail identity -- a candidate equal to the masked text is
\* accepted, whatever the masked text: no placeholder, adjacent
\* placeholders, or the empty string.
C15_Identity ==
    (pc = "g_verified" /\ restored_text = masked_text)
        => guardrail_result = TRUE

\* an unchanged text with two adjacent placeholders followed by a literal
\* has been verified
C15_Witness ==
    /\ pc = "g_verified"
    /\ restored_text = masked_text
    /\ masked_text = UNK \o UNK \o <<"a">>
    /\ guardrail_result = TRUE

----------------------------------------------------------------------------
(* Laws of XAIClient.restore                                               *)

Requests(log) == {i \in 1..Len(log) : log[i].ev = "request"}

\* restore sends no more than max_attempts requests
XaiRequestCap == Cardinality(Requests(http_log)) <= max_attempts

\* a retryable status on a non-final attempt is followed by a sleep, and
\* what follows the sleep is another request
XaiBackoffThenRequest ==
    \A i \in 1..Len(http_log) :
        (/\ http_log[i].ev = "response"
         /\ http_log[i].status \in retryable
         /\ http_log[i].attempt < max_attempts)
        => /\ i + 1 <= Len(http_log)
           /\ http_log[i + 1].ev = "sleep"
           /\ i + 2 <= Len(http_log) => http_log[i + 2].ev = "request"

\* a failing final attempt raises
XaiFinalFailureRaises ==
    (/\ attempt = max_attempts
     /\ max_attempts >= 1
     /\ pc \notin {"x_post", "x_returned"})
    => pc = "x_raised" /\ "raised" \in DOMAIN xai_result

\* C16: retry cap of the completion client -- for every sequence of server
\* responses one call of XAIClient.restore sends at most max_attempts
\* requests, a retryable status on a non-final attempt is followed by a
\* backoff sleep and another request, a failing final attempt raises, and
\* the call always ends: it returns a string or raises.
C16_RetryCap ==
    /\ []XaiRequestCap
    /\ []XaiBackoffThenRequest
    /\ []XaiFinalFailureRaises
    /\ <>(pc \in {"x_returned", "x_raised"})

----------------------------------------------------------------------------
(* Laws of the page coordinator, continued                                 *)

\* the pages main reports as needing review (lines 245-250)
ReviewPages(res) ==
    {guardrail_flags(res)[i].page : i \in 1..Len(guardrail_flags(res))}

\* C17: run accounting -- once _process_pages has returned for n pages there
\* is exactly one record per page, labelled 1..n in page order, each
\* "success" or "failed"; the two counts add up to n; and the pages
\* reported for review are exactly the successful pages whose restoration
\* came back with guardrail_violated true.
C17_Accounting ==
    pc = "p_returned" =>
        /\ DOMAIN results = 1..npages
        /\ \A p \in Pages :
              /\ results[p].page = p
              /\ results[p].status \in {"success", "failed"}
        /\ Len(success(results)) + Len(failed(results)) = npages
        /\ ReviewPages(results) =
              {p \in Pages : /\ results[p].status = "success"
                             /\ cleanup_result[p].guardrail_violated}

\* two pages: the first failed, the second succeeded with a restoration
\* that still violates the guardrail and is reported for review
C17_Witness ==
    /\ pc = "p_returned"
    /\ npages = 2
    /\ results[1].status = "failed"
    /\ results[2].status = "success"
    /\ cleanup_result[2].guardrail_violated
    /\ ReviewPages(results) = {2}

----------------------------------------------------------------------------
(* Laws of _guardrail_ok: soundness and lookahead                          *)

\* C18: guardrail soundness -- _guardrail_ok returns true only if the
\* candidate is the masked text with every placeholder replaced by some
\* string, the empty one included; characters inserted or deleted outside
\* the placeholders make it return false.
C18_Soundness ==
    (pc = "g_verified" /\ guardrail_result = TRUE)
        => IsFillOf(RegexSplit(masked_text), restored_text, 0)

\* the first literal with content after parts[idx], "" when there is none
RECURSIVE NextNonEmptyLiteral(_, _)
NextNonEmptyLiteral(parts, idx) ==
    IF idx + 1 > Len(parts) THEN <<>>
    ELSE IF parts[idx + 1] # UNK /\ parts[idx + 1] # <<>> THEN parts[idx + 1]
    ELSE NextNonEmptyLiteral(parts, idx + 1)

\* C19: placeholder lookahead -- for every placeholder the verifier gets
\* to, the anchor it looks for is the next literal with content anywhere
\* later in the split sequence (further placeholders and the empty literals
\* between them are skipped), so the anchor is empty, and the cursor jumps
\* to the end, only when no literal with content follows.
C19_Lookahead ==
    (pc = "g_verified" /\ masked_text # restored_text)
        => \A idx \in WalkVisits(RegexSplit(masked_text), 1, 0, restored_text) :
              NextLiteral(RegexSplit(masked_text), idx)
                  = NextNonEmptyLiteral(RegexSplit(masked_text), idx)

----------------------------------------------------------------------------
(* Laws of _build_masked_text on a transcript made of its tokens           *)

\* where the i-th token starts in the transcript
RECURSIVE TokenStart(_, _)
TokenStart(toks, i) ==
    IF i = 1 THEN 0 ELSE TokenStart(toks, i - 1) + Len(toks[i - 1].token) + 1

\* the occurrence a replacement has just taken, as a place in the transcript
LastMasked == maskLog[Len(maskLog)].orig

\* C20: occurrence alignment -- when the transcript is the tokens in reading
\* order and a low-confidence token is masked, the placeholder takes the
\* occurrence that belongs to that token: the j-th occurrence of its text
\* for the j-th token bearing that text, the confident tokens before it
\* accounting for the earlier occurrences.
C20_Alignment ==
    (tokens # NoResult /\ pc = "m_loop" /\ outcome = "replaced")
        => LastMasked = TokenStart(tokens.list, consumed)

----------------------------------------------------------------------------
(* Laws of restore driven through XAIClient.restore                        *)

\* the raw content the completion model gave on attempt k
RawOutput(k) == http_log[k].raw

\* C21: end-to-end acceptance of a legal fill-in -- for every masked text,
\* one that begins or ends with line breaks included, if the raw output of
\* the completion model on attempt 1 is the masked text with only its
\* placeholders replaced, the guardrail accepts it, and restore returns
\* with attempts = 1 and both flags false.
C21_LegalFillAccepted ==
    (/\ Len(verdicts) >= 1
     /\ IsFillOf(RegexSplit(masked_text), RawOutput(1), 1))
    => /\ verdicts[1] = TRUE
       /\ pc = "r_returned"
       /\ result.attempts = 1
       /\ result.guardrail_triggered = FALSE
       /\ result.guardrail_violated = FALSE

----------------------------------------------------------------------------
(* Laws of restore: what an accepted result guarantees                     *)

\* C22: filled-with-something guarantee -- for a masked text with at least
\* one placeholder, whenever restore returns with guardrail_violated false
\* the returned text has no placeholder left in it.
C22_Filled ==
    (/\ pc = "r_returned"
     /\ HasPlaceholder(masked_text)
     /\ result.guardrail_violated = FALSE)
    => ~HasPlaceholder(result.restored_text)

----------------------------------------------------------------------------
(* Laws of the page coordinator: artifacts                                 *)

\* the worker of page p has returned a failure record
PageFailed(p) == task[p] = "returned" /\ page_result[p].status = "failed"

\* the worker of page p has returned a success record
PageSucceeded(p) == task[p] = "returned" /\ page_result[p].status = "success"

\* the page failed after the completion client had answered at least once
FailedWithCandidate(p) ==
    PageFailed(p) /\ page_result[p].error \in {"client_call_2", "naming_or_export"}

\* C23: failure artifacts -- a page that fails after OCR gave a result has
\* its raw and masked transcripts persisted; a page that fails after the
\* completion client returned at least one candidate has the restored text
\* collected so far persisted as "restored", which is empty only if no
\* candidate was obtained; a page that succeeds has no artifacts written.
C23_FailureArtifacts ==
    \A p \in Pages :
        /\ (PageFailed(p) /\ ocr_done[p])
              => /\ artifacts[p] # NoResult
                 /\ artifacts[p].raw
                 /\ artifacts[p].masked
        /\ FailedWithCandidate(p)
              => /\ artifacts[p] # NoResult
                 /\ artifacts[p].restored # ""
        /\ PageSucceeded(p) => artifacts[p] = NoResult

----------------------------------------------------------------------------
(* Laws of restore: warnings and flags                                     *)

\* how many times msg is in ws
Times(ws, msg) == Cardinality({i \in 1..Len(ws) : ws[i] = msg})

\* the attempts whose candidate fails the guardrail
FailingAttempts == {k \in 1..Len(responses) : ~Passed(k)}

\* what restore returns for these responses, stated without the logger
ExpectedResult ==
    IF Passed(1)
    THEN [restored_text |-> responses[1], attempts |-> 1,
          guardrail_triggered |-> FALSE, guardrail_violated |-> FALSE]
    ELSE [restored_text |-> responses[2], attempts |-> 2,
          guardrail_triggered |-> TRUE, guardrail_violated |-> ~Passed(2)]

\* C24: guardrail warnings -- with a logger, restore has emitted by its
\* return exactly one retry warning per attempt whose candidate fails the
\* guardrail, and exactly one "persists" warning if and only if the final
\* candidate fails; none at all when attempt 1 passes; and the result and
\* the number of client calls depend on the responses only, not on whether
\* a logger is there.
C24_Warnings ==
    pc = "r_returned" =>
        /\ logger =>
              /\ Times(warnings, RetryWarning) = Cardinality(FailingAttempts)
              /\ Times(warnings, PersistWarning)
                    = (IF ~Passed(Len(responses)) THEN 1 ELSE 0)
              /\ Len(warnings) = Times(warnings, RetryWarning)
                                   + Times(warnings, PersistWarning)
              /\ Passed(1) => warnings = <<>>
        /\ ~logger => warnings = <<>>
        /\ result = ExpectedResult
        /\ Len(calls) = Len(responses)
        /\ Len(calls) = (IF Passed(1) THEN 1 ELSE 2)

\* with a logger, both candidates failed: two retry warnings and then the
\* "persists" warning
C24_Witness ==
    /\ pc = "r_returned"
    /\ logger
    /\ warnings = <<RetryWarning, RetryWarning, PersistWarning>>

----------------------------------------------------------------------------
(* Laws of the page coordinator: termination                               *)

\* _process_pages is over: it returned, or the run ended with its exception
PagesOver == pc \in {"p_returned", "p_aborted"}

\* C25: every page terminates and the limiter is always released -- given
\* that every collaborator call comes back, every page worker gets the
\* semaphore, finishes with a record and releases, so the gather completes
\* with every page's record and all N permits are free again at the end;
\* no page is cancelled or kept waiting because a sibling failed.
C25_Termination ==
    /\ \A p \in 1..MaxPages : <>(p \in Pages => task[p] = "returned")
    /\ <>(pc = "p_returned")
    /\ [](PagesOver => permits = limit)
    /\ [](\A p \in Pages : task[p] # "cancelled")

----------------------------------------------------------------------------
(* Laws of the page coordinator: outputs                                   *)

\* C26: non-overlapping outputs under concurrency -- when the run is not a
\* dry run, no two successful pages have the same output PDF path,
\* whatever the interleaving and even when both pages yield the same name;
\* every such path is a file that exists.
C26_DistinctOutputs ==
    ~dry_run =>
        \A p, q \in Pages :
            (PageSucceeded(p) /\ PageSucceeded(q) /\ p # q)
            => /\ page_result[p].output # page_result[q].output
               /\ page_result[p].output \in files

\* two pages with the same extracted name have both been written
C26_Witness ==
    /\ ~dry_run
    /\ npages >= 2
    /\ PageSucceeded(1)
    /\ PageSucceeded(2)
    /\ {page_result[1].output, page_result[2].output}
          = {PathOf(<<"a">>, 1), PathOf(<<"a">>, 2)}

\* C27: result-flag invariant -- every CleanupResult restore returns has
\* attempts 1 or 2, guardrail_triggered exactly when attempts = 2,
\* guardrail_violated only with guardrail_triggered, and
\* guardrail_violated exactly when the returned text fails _guardrail_ok
\* against the original masked text.
C27_Flags ==
    pc = "r_returned" =>
        /\ result.attempts \in {1, 2}
        /\ result.guardrail_triggered <=> (result.attempts = 2)
        /\ result.guardrail_violated => result.guardrail_triggered
        /\ result.guardrail_violated
              <=> ~GuardrailOk(masked_text, result.restored_text)

\* a result that is returned in violation after two attempts
C27_Witness ==
    /\ pc = "r_returned"
    /\ result.attempts = 2
    /\ result.guardrail_violated
    /\ ~GuardrailOk(masked_text, result.restored_text)

----------------------------------------------------------------------------
(* Laws of the page coordinator: intermediate images                       *)

\* the worker of page p is over: it returned a record or raised
WorkEnded(p) == task[p] \in {"returned", "raised"}

\* the record of a page says nothing about the deletion of its image: it
\* is the success record of its CleanupResult and output, or a failure
\* record whose error comes from OCR, the client, naming or export
RecordUntouched(p) ==
    task[p] = "returned" =>
        IF page_result[p].status = "success"
        THEN page_result[p]
                = SuccessRecord(p, cleanup_result[p], page_result[p].output)
        ELSE page_result[p].error
                \in {"ocr", "client_call_1", "client_call_2", "naming_or_export"}

\* C28: intermediate image cleanup -- with keep_images false the image of
\* a page is removed once the page's work has ended, on the success and on
\* the failure path; with keep_images true it is never removed; a failure
\* to delete it does not change the page's record.
C28_ImageCleanup ==
    \A p \in Pages :
        /\ (~keep_images /\ WorkEnded(p)) => image[p] = "removed"
        /\ keep_images => image[p] = "present"
        /\ RecordUntouched(p)

\* C28 as amended: with keep_images false, once the page's work has ended
\* the removal of its image has been attempted -- the image is removed,
\* or the deletion failed and the image is still there; with keep_images
\* true it is never removed; a failure to delete it does not change the
\* page's record.
C28_ImageCleanupAttempted ==
    \A p \in Pages :
        /\ (~keep_images /\ WorkEnded(p))
              => image[p] \in {"removed", "unlink_failed"}
        /\ (~keep_images /\ ~WorkEnded(p) /\ task[p] # "cancelled")
              => image[p] = "present"
        /\ keep_images => image[p] = "present"
        /\ RecordUntouched(p)

\* one page succeeded and its image is gone; the other failed, the
\* deletion of its image failed too, and its record is the failure record
C28_Witness ==
    /\ ~keep_images
    /\ npages >= 2
    /\ PageSucceeded(1)
    /\ image[1] = "removed"
    /\ PageFailed(2)
    /\ image[2] = "unlink_failed"

----------------------------------------------------------------------------
(* Laws of XAIClient.restore, continued                                    *)

\* the log entries that record what a POST came to
Outcomes(log) == {i \in 1..Len(log) : log[i].ev \in {"error", "response"}}

\* the exception a logged outcome stands for ("none" for one that may be
\* a good answer)
ErrorOf(e) ==
    IF e.ev = "error" THEN {"TransportError"}
    ELSE IF e.status = 200 THEN {"ValueError_choices", "ValueError_content"}
    ELSE {"HTTPStatusError"}

\* every failed outcome before the final attempt is followed by a sleep,
\* and what follows the sleep is a request
XaiErrorThenBackoff ==
    \A i \in Outcomes(http_log) :
        http_log[i].attempt < max_attempts
        => \/ i = Len(http_log) /\ pc = "x_returned"
           \/ /\ i + 1 <= Len(http_log)
              /\ http_log[i + 1].ev = "sleep"
              /\ i + 2 <= Len(http_log) => http_log[i + 2].ev = "request"

\* what propagates is the exception of the last attempt, never the
\* trailing RuntimeError when at least one attempt is allowed
XaiLastErrorPropagates ==
    (pc = "x_raised" /\ max_attempts >= 1)
    => /\ xai_result.raised # "RuntimeError"
       /\ xai_result.raised = last_error
       /\ http_log[Len(http_log)].ev \in {"error", "response"}
       /\ http_log[Len(http_log)].attempt = max_attempts
       /\ xai_result.raised \in ErrorOf(http_log[Len(http_log)])

\* C29: in XAIClient.restore any exception on a non-final attempt -- a
\* retryable status, a non-retryable HTTP error, a response without choices
\* or content -- is followed by a backoff sleep and then another request;
\* the exception that propagates in the end is that of the last attempt;
\* the trailing RuntimeError is not reached when max_attempts >= 1.
C29_RetryAnyError ==
    /\ []XaiErrorThenBackoff
    /\ (pc = "x_sleep") ~> (pc = "x_post")
    /\ []XaiLastErrorPropagates

====
